---- MODULE Spec2Model ----
(***************************************************************************)
(* Air Tracker: the Collector (api_data_collection.py) and the Dashboard   *)
(* (streamlit_app.py) over one SQLite store.                               *)
(*                                                                         *)
(* A table is the sequence of its rows in rowid order.  A JSON object of   *)
(* the provider is a record; a key that is missing, or whose value is JSON *)
(* null, reads as NULL through dict.get.  A nested object that is JSON     *)
(* null itself (so that .get(...) on it raises AttributeError) is JSONNULL.*)
(* Only the columns some view or constraint reads are kept in a row.       *)
(***************************************************************************)
EXTENDS Integers, Sequences, FiniteSets, TLC

VARIABLES
    tables_created,         \* the store file holds the schema
    airport,                \* table airport, rows in rowid order
    aircraft,               \* table aircraft
    flights,                \* table flights
    uncommitted,            \* per table, the number of its last rows that
                            \* the Collector's connection wrote and has
                            \* not committed; the tables above are what
                            \* this connection sees
    pc,                     \* position of main()
    idx,                    \* position of the running for loop
    jdx,                    \* position of the loop over departures[:5]
    airports_data,          \* main: codes whose fetch was truthy
    departures,             \* main: the list get_flights_by_airport returned
    aircraft_registrations, \* main: set of registrations of step 3
    requested,              \* main: registrations already iterated in step 4
    console,                \* what the last step printed (error line or "")
    summary,                \* the counts step 5 printed
    conn_open,              \* the Collector's connection is open
    runs,                   \* number of Collector runs started
    run_base,               \* history: table sizes when the run started
    passed,                 \* history: flights passed to insert_flight for
                            \* the airport whose departures are iterated
    ingested,               \* history: flights passed to insert_flight in
                            \* this run
    calls,                  \* history: the external calls of this run in
                            \* order, each returned before the next: the
                            \* kind, the code of an airport or departures
                            \* request, whether an airport request failed
    page                    \* Dashboard: the view rendered last

vars == <<tables_created, airport, aircraft, flights, uncommitted, pc, idx, jdx, airports_data, departures,
          aircraft_registrations, requested, console, summary, conn_open,
          runs, run_base, passed, ingested, calls, page>>

collector_vars == <<pc, idx, jdx, airports_data, departures,
                    aircraft_registrations, requested, console, summary,
                    conn_open, runs, run_base, passed, ingested, calls>>

store_vars == <<airport, aircraft, flights, uncommitted>>

dashboard_vars == <<page>>

-----------------------------------------------------------------------------
(* Bounds of the model                                                     *)

\* number of codes of AIRPORT_CODES a run iterates
NumCodes == 3
\* number of Collector runs against the same store
MaxRuns == 2

-----------------------------------------------------------------------------
(* Values                                                                  *)

NULL == "NULL"
JSONNULL == "JSONNULL"

AIRPORT_CODES_ALL ==
    <<"DEL", "BOM", "BLR", "CCU", "HYD", "LHR", "CDG", "DXB", "SIN", "HND",
      "LAX", "JFK", "ORD">>

AIRPORT_CODES == SubSeq(AIRPORT_CODES_ALL, 1, NumCodes)

\* departures[:5], list(aircraft_registrations)[:10]
FLIGHT_LIMIT == 5
AIRCRAFT_LIMIT == 10

Range(s) == {s[n] : n \in DOMAIN s}

Min(a, b) == IF a <= b THEN a ELSE b

-----------------------------------------------------------------------------
(* SQL: INSERT OR IGNORE under the UNIQUE / PRIMARY KEY constraints of      *)
(* create_database.  A NULL never conflicts: SQLite admits any number of   *)
(* NULLs in a UNIQUE column and in a non-INTEGER PRIMARY KEY.              *)

airport_conflict(tbl, row) ==
    \E n \in DOMAIN tbl :
        \/ row.icao_code # NULL /\ tbl[n].icao_code = row.icao_code
        \/ row.iata_code # NULL /\ tbl[n].iata_code = row.iata_code

aircraft_conflict(tbl, row) ==
    \E n \in DOMAIN tbl :
        row.registration # NULL /\ tbl[n].registration = row.registration

flights_conflict(tbl, row) ==
    \E n \in DOMAIN tbl :
        row.flight_id # NULL /\ tbl[n].flight_id = row.flight_id

\* the transaction of the Collector's connection: cursor.execute leaves the
\* n rows it wrote uncommitted, conn.commit() writes them to the file
NoneUncommitted == [airport |-> 0, aircraft |-> 0, flights |-> 0]

execute(pending, table, n) == [pending EXCEPT ![table] = @ + n]

\* no commit after the insert: the rows stay in the open transaction
commit_deferred(pending) == pending

commit(pending) == NoneUncommitted

\* the rows of a table that are in the file: what another connection reads,
\* and what is left when the Collector's process ends
persisted(tbl, n) == SubSeq(tbl, 1, Len(tbl) - n)

\* insert_airport: the row is built with dict.get, inserted, committed
insert_airport(tbl, airport_data) ==
    LET row == [icao_code |-> airport_data.icao,
                iata_code |-> airport_data.iata,
                name      |-> airport_data.name,
                latitude  |-> airport_data.latitude,
                longitude |-> airport_data.longitude]
    IN  IF airport_conflict(tbl, row) THEN tbl ELSE Append(tbl, row)

\* insert_aircraft
insert_aircraft(tbl, aircraft_data) ==
    LET row == [registration |-> aircraft_data.registration,
                model        |-> aircraft_data.model]
    IN  IF aircraft_conflict(tbl, row) THEN tbl ELSE Append(tbl, row)

\* insert_flight raises inside its try when a nested object is JSON null;
\* flight_data.departure is "object" or JSONNULL, and origin / scheduled are
\* what the object holds
insert_flight_raises(flight_data) ==
    flight_data.aircraft = JSONNULL \/ flight_data.departure = JSONNULL

\* PRAGMA foreign_keys = ON: a flight whose origin, destination or aircraft
\* has no row raises an IntegrityError, which is printed and the row skipped
insert_flight_enforced(tbl, flight_data) ==
    LET row == [flight_id             |-> flight_data.number,
                flight_number         |-> flight_data.number,
                aircraft_registration |-> flight_data.aircraft,
                origin_iata           |-> flight_data.origin,
                destination_iata      |-> flight_data.destination,
                scheduled_departure   |-> flight_data.scheduled,
                status                |-> flight_data.status]
        referenced(code) ==
            code = NULL \/ \E m \in DOMAIN airport : airport[m].iata_code = code
        registered(reg) ==
            reg = NULL \/ \E m \in DOMAIN aircraft : aircraft[m].registration = reg
    IN  IF \/ insert_flight_raises(flight_data)
           \/ flights_conflict(tbl, row)
           \/ ~referenced(row.origin_iata)
           \/ ~referenced(row.destination_iata)
           \/ ~registered(row.aircraft_registration)
        THEN tbl
        ELSE Append(tbl, row)

\* INSERT OR REPLACE instead of INSERT OR IGNORE: the stored row is replaced
insert_flight_replace(tbl, flight_data) ==
    LET row == [flight_id             |-> flight_data.number,
                flight_number         |-> flight_data.number,
                aircraft_registration |-> flight_data.aircraft,
                origin_iata           |-> flight_data.origin,
                destination_iata      |-> flight_data.destination,
                scheduled_departure   |-> flight_data.scheduled,
                status                |-> flight_data.status]
    IN  IF insert_flight_raises(flight_data)
        THEN tbl
        ELSE Append(SelectSeq(tbl, LAMBDA r : r.flight_id # row.flight_id), row)

\* insert_flight: 'number' is stored as flight_id and as flight_number; an
\* exception is printed and the row skipped
insert_flight(tbl, flight_data) ==
    LET row == [flight_id             |-> flight_data.number,
                flight_number         |-> flight_data.number,
                aircraft_registration |-> flight_data.aircraft,
                origin_iata           |-> flight_data.origin,
                destination_iata      |-> flight_data.destination,
                scheduled_departure   |-> flight_data.scheduled,
                status                |-> flight_data.status]
    IN  IF insert_flight_raises(flight_data) \/ flights_conflict(tbl, row)
        THEN tbl
        ELSE Append(tbl, row)

-----------------------------------------------------------------------------
(* The provider.  A response is a record: kind "http_error" or             *)
(* "transport_error" (requests raises a RequestException), or "json" with  *)
(* the decoded body.                                                       *)

Icao(iata) ==
    CASE iata = "DEL" -> "VIDP"
      [] iata = "BOM" -> "VABB"
      [] iata = "BLR" -> "VOBL"
      [] OTHER        -> "EGLL"

HttpError == [kind |-> "http_error"]
TransportError == [kind |-> "transport_error"]

Failed(resp) == resp.kind \in {"http_error", "transport_error"}

\* an airport with its coordinates, and one without 'latitude' and
\* 'longitude'
AirportJson(icao, iata, name) ==
    [kind |-> "json", empty |-> FALSE, icao |-> icao, iata |-> iata,
     name |-> name, latitude |-> "28.5665", longitude |-> "77.1031"]

AirportJsonNoLocation(icao, iata, name) ==
    [kind |-> "json", empty |-> FALSE, icao |-> icao, iata |-> iata,
     name |-> name, latitude |-> NULL, longitude |-> NULL]

EmptyJson == [kind |-> "json", empty |-> TRUE]

\* the airports this provider has data of; it answers 404 for the others
KnownAirports == {"DEL", "BOM"}

\* what the provider may answer to GET /airports/iata/{iata}
AirportResponses(iata) ==
    IF iata \in KnownAirports
    THEN { HttpError, TransportError, EmptyJson,
           AirportJson(Icao(iata), iata, "Airport One"),
           AirportJsonNoLocation("VIDP", iata, "Airport Two") }
    ELSE { HttpError, TransportError }

FlightJson(number, registration, origin, destination, scheduled, status) ==
    [number |-> number, aircraft |-> registration, departure |-> "object",
     origin |-> origin, destination |-> destination, scheduled |-> scheduled,
     status |-> status]

AI101 == FlightJson("AI101", "VT-A", "DEL", "LHR", "2024-01-01", "Delayed")
\* the same flight number on two days
AI202 == FlightJson("AI202", "VT-B", "DEL", "BOM", "2024-01-02", "On Time")
AI202_next_day ==
    FlightJson("AI202", "VT-A", "BOM", "JFK", "2024-01-03", "Delayed")
\* no 'number', no 'aircraft', no 'status', no 'scheduledTimeUtc'
Unnumbered == FlightJson(NULL, NULL, "DEL", NULL, NULL, NULL)
\* "departure": null
NoDeparture == [FlightJson("AI303", "VT-B", NULL, "DEL", NULL, "On Time")
                    EXCEPT !.departure = JSONNULL]
\* "aircraft": null
NoAircraft == FlightJson("AI404", JSONNULL, "BOM", "DEL", "2024-01-05", "On Time")

DeparturesJson(list) == [kind |-> "json", list |-> list]

\* what the provider may answer to GET /airports/iata/{iata}/departures/latest
DepartureResponses ==
    { HttpError,
      DeparturesJson(<<>>),
      DeparturesJson(<<AI101, AI202, AI202_next_day, Unnumbered, NoDeparture>>),
      DeparturesJson(<<AI101, NoAircraft, AI202>>) }

AircraftJson(registration, model) ==
    [kind |-> "json", empty |-> FALSE, registration |-> registration, model |-> model]

\* what the provider may answer to GET /aircrafts/iata/{registration}
AircraftResponses(registration) ==
    { HttpError, EmptyJson,
      AircraftJson(registration, "A320"),
      AircraftJson("VT-A", "B777"),
      AircraftJson(NULL, "A320") }

-----------------------------------------------------------------------------
(* A provider with long departure lists: twelve flights of twelve aircraft *)
(* in two lists of six, so that a run over three airports collects more    *)
(* registrations than step 4 asks for.                                     *)

BulkNumbers ==
    <<"6E01", "6E02", "6E03", "6E04", "6E05", "6E06",
      "6E07", "6E08", "6E09", "6E10", "6E11", "6E12">>

BulkRegistrations ==
    <<"VT-01", "VT-02", "VT-03", "VT-04", "VT-05", "VT-06",
      "VT-07", "VT-08", "VT-09", "VT-10", "VT-11", "VT-12">>

BulkFlight(n) ==
    FlightJson(BulkNumbers[n], BulkRegistrations[n], "DEL", "BOM",
               "2024-01-02", "On Time")

BulkList(first) == [n \in 1..6 |-> BulkFlight(first + n - 1)]

BulkAirportResponses(iata) ==
    { HttpError, AirportJson(Icao(iata), iata, "Airport One") }

BulkDepartureResponses ==
    { DeparturesJson(BulkList(1)), DeparturesJson(BulkList(7)),
      DeparturesJson(<<AI101>>) }

BulkAircraftResponses(registration) ==
    { HttpError, AircraftJson("VT-A", "B777") }

-----------------------------------------------------------------------------
(* The fetch functions: None on a RequestException, else response.json()   *)

None == [kind |-> "None"]

get_airport_info(resp) == IF Failed(resp) THEN None ELSE resp

get_flights_by_airport(resp) == IF Failed(resp) THEN None ELSE resp

get_aircraft_info(resp) == IF Failed(resp) THEN None ELSE resp

\* Python truthiness of the value a fetch returned
Truthy(v) ==
    /\ v.kind = "json"
    /\ IF "list" \in DOMAIN v THEN v.list # <<>> ELSE ~v.empty

-----------------------------------------------------------------------------
(* main()                                                                  *)

NoSummary == [airports |-> -1, flights |-> -1, aircraft |-> -1]

\* airports_data.keys(): a dict iterates in insertion order
\* a loop over every code instead of the codes fetched
airports_data_keys_all == AIRPORT_CODES

airports_data_keys == SelectSeq(AIRPORT_CODES, LAMBDA c : c \in airports_data)

\* departures without the slice
departures_unsliced == departures

\* departures[:5]
departures_slice == SubSeq(departures, 1, Min(FLIGHT_LIMIT, Len(departures)))

\* len(list(aircraft_registrations)[:10])
aircraft_slice_len == Min(AIRCRAFT_LIMIT, Cardinality(aircraft_registrations))

Init ==
    /\ tables_created = FALSE
    /\ airport = <<>>
    /\ aircraft = <<>>
    /\ flights = <<>>
    /\ uncommitted = NoneUncommitted
    /\ pc = "start"
    /\ idx = 0
    /\ jdx = 0
    /\ airports_data = {}
    /\ departures = <<>>
    /\ aircraft_registrations = {}
    /\ requested = {}
    /\ console = ""
    /\ summary = NoSummary
    /\ conn_open = FALSE
    /\ runs = 0
    /\ run_base = [airport |-> 0, aircraft |-> 0, flights |-> 0]
    /\ passed = <<>>
    /\ ingested = {}
    /\ calls = <<>>
    /\ page = [view |-> "none"]

\* Step 1: a new process; create_database makes the tables if absent
Step1CreateDatabase ==
    /\ pc \in {"start", "done", "crashed"}
    /\ runs < MaxRuns
    /\ runs' = runs + 1
    /\ pc' = "step2"
    /\ idx' = 1
    /\ jdx' = 0
    /\ airports_data' = {}
    /\ departures' = <<>>
    /\ aircraft_registrations' = {}
    /\ requested' = {}
    /\ console' = ""
    /\ summary' = NoSummary
    /\ conn_open' = TRUE
    /\ run_base' = [airport |-> Len(airport), aircraft |-> Len(aircraft),
                    flights |-> Len(flights)]
    /\ passed' = <<>>
    /\ ingested' = {}
    /\ calls' = <<>>
    /\ tables_created' = TRUE
    /\ UNCHANGED <<store_vars, page>>

\* get_airport_info without its try / except: the exception ends the run
Step2Airport_uncaught(resp) ==
    /\ pc = "step2"
    /\ idx <= Len(AIRPORT_CODES)
    /\ IF Failed(resp)
       THEN /\ pc' = "crashed"
            /\ UNCHANGED <<airport, airports_data, idx>>
       ELSE /\ pc' = pc
            /\ idx' = idx + 1
            /\ IF Truthy(resp)
               THEN /\ airport' = insert_airport(airport, resp)
                    /\ airports_data' = airports_data \cup {AIRPORT_CODES[idx]}
               ELSE UNCHANGED <<airport, airports_data>>
    /\ uncommitted' = commit(execute(uncommitted, "airport",
                                     Len(airport') - Len(airport)))
    /\ console' = ""
    /\ calls' = Append(calls, [kind |-> "airport", code |-> AIRPORT_CODES[idx],
                                failed |-> Failed(resp)])
    /\ UNCHANGED <<tables_created, aircraft, flights, jdx, departures,
                   aircraft_registrations, requested, summary, conn_open, runs,
                   run_base, passed, ingested, page>>

\* Step 2, one iteration of the loop over AIRPORT_CODES
Step2Airport(resp) ==
    /\ pc = "step2"
    /\ idx <= Len(AIRPORT_CODES)
    /\ LET iata == AIRPORT_CODES[idx]
           airport_info == get_airport_info(resp)
       IN  /\ IF Truthy(airport_info)
              THEN /\ airport' = insert_airport(airport, airport_info)
                   /\ airports_data' = airports_data \cup {iata}
                   /\ uncommitted' =
                        commit(execute(uncommitted, "airport",
                                       Len(airport') - Len(airport)))
              ELSE UNCHANGED <<airport, airports_data, uncommitted>>
           /\ console' = IF Failed(resp) THEN "Error fetching airport" ELSE ""
    /\ idx' = idx + 1
    /\ calls' = Append(calls, [kind |-> "airport", code |-> AIRPORT_CODES[idx],
                                failed |-> Failed(resp)])
    /\ UNCHANGED <<tables_created, aircraft, flights, pc, jdx, departures,
                   aircraft_registrations, requested, summary, conn_open, runs,
                   run_base, passed, ingested, page>>

\* Step 2 ends: prints the number of airports fetched
Step2Done ==
    /\ pc = "step2"
    /\ idx > Len(AIRPORT_CODES)
    /\ pc' = "step3"
    /\ idx' = 1
    /\ console' = ""
    /\ UNCHANGED <<tables_created, store_vars, jdx, airports_data, departures,
                   aircraft_registrations, requested, summary, conn_open, runs,
                   run_base, passed, ingested, calls, page>>

\* Step 3, one iteration of the loop over airports_data.keys(): the request
Step3Departures(resp) ==
    /\ pc = "step3"
    /\ idx <= Len(airports_data_keys)
    /\ LET got == get_flights_by_airport(resp)
       IN  IF Truthy(got)
           THEN /\ departures' = got.list
                /\ pc' = "step3_flights"
                /\ jdx' = 1
                /\ idx' = idx
           ELSE /\ departures' = <<>>
                /\ pc' = "step3"
                /\ jdx' = 0
                /\ idx' = idx + 1
    /\ console' = IF Failed(resp) THEN "Error fetching departures" ELSE ""
    /\ passed' = <<>>
    /\ calls' = Append(calls, [kind |-> "departures",
                                code |-> airports_data_keys[idx]])
    /\ UNCHANGED <<tables_created, store_vars, airports_data,
                   aircraft_registrations, requested,
                   summary, conn_open, runs, run_base, ingested, page>>

\* Step 3, one iteration of the loop over departures[:5]: insert_flight, then
\* flight.get('aircraft', {}).get('registration') outside any try
Step3Flight ==
    /\ pc = "step3_flights"
    /\ jdx <= Len(departures_slice)
    /\ LET flight == departures_slice[jdx]
       IN  /\ flights' = insert_flight(flights, flight)
           /\ uncommitted' =
                IF insert_flight_raises(flight)
                THEN uncommitted
                ELSE commit(execute(uncommitted, "flights",
                                    Len(flights') - Len(flights)))
           /\ passed' = Append(passed, flight)
           /\ ingested' = ingested \cup {flight}
           /\ console' = IF insert_flight_raises(flight)
                         THEN "Error inserting flight" ELSE ""
           /\ IF flight.aircraft = JSONNULL
              THEN /\ pc' = "crashed"
                   /\ UNCHANGED <<idx, jdx, aircraft_registrations>>
              ELSE /\ aircraft_registrations' =
                        IF flight.aircraft # NULL
                        THEN aircraft_registrations \cup {flight.aircraft}
                        ELSE aircraft_registrations
                   /\ IF jdx < Len(departures_slice)
                      THEN /\ jdx' = jdx + 1
                           /\ UNCHANGED <<pc, idx>>
                      ELSE /\ jdx' = 0
                           /\ pc' = "step3"
                           /\ idx' = idx + 1
    /\ UNCHANGED <<tables_created, airport, aircraft, airports_data, departures,
                   requested,
                   summary, conn_open, runs, run_base, calls, page>>

\* Step 3 ends
Step3Done ==
    /\ pc = "step3"
    /\ idx > Len(airports_data_keys)
    /\ pc' = "step4"
    /\ idx' = 1
    /\ console' = ""
    /\ UNCHANGED <<tables_created, store_vars, jdx, airports_data, departures,
                   aircraft_registrations, requested, summary, conn_open, runs,
                   run_base, passed, ingested, calls, page>>

\* Step 4, one iteration of the loop over list(aircraft_registrations)[:10]:
\* a set iterates in an arbitrary order, so the next registration is any
\* one not iterated yet
Step4Aircraft(registration, resp) ==
    /\ pc = "step4"
    /\ Cardinality(requested) < aircraft_slice_len
    /\ registration \in aircraft_registrations \ requested
    /\ LET aircraft_info == get_aircraft_info(resp)
       IN  IF Truthy(aircraft_info)
           THEN /\ aircraft' = insert_aircraft(aircraft, aircraft_info)
                /\ uncommitted' =
                     commit(execute(uncommitted, "aircraft",
                                    Len(aircraft') - Len(aircraft)))
           ELSE UNCHANGED <<aircraft, uncommitted>>
    /\ requested' = requested \cup {registration}
    /\ console' = IF Failed(resp) THEN "Error fetching aircraft" ELSE ""
    /\ calls' = Append(calls, [kind |-> "aircraft"])
    /\ UNCHANGED <<tables_created, airport, flights, pc, idx, jdx, airports_data,
                   departures,
                   aircraft_registrations, summary, conn_open, runs, run_base,
                   passed, ingested, page>>

\* Step 5: the three COUNT(*) are printed and the connection is closed
Step5Summary ==
    /\ pc = "step4"
    /\ Cardinality(requested) = aircraft_slice_len
    /\ summary' = [airports |-> Len(airport), flights |-> Len(flights),
                   aircraft |-> Len(aircraft)]
    /\ conn_open' = FALSE
    /\ pc' = "done"
    /\ console' = ""
    /\ UNCHANGED <<tables_created, store_vars, idx, jdx, airports_data,
                   departures,
                   aircraft_registrations, requested, runs, run_base, passed,
                   ingested, calls, page>>

\* the code whose airport is fetched next
current_code == AIRPORT_CODES[idx]

Next ==
    \/ Step1CreateDatabase
    \/ /\ pc = "step2"
       /\ idx <= Len(AIRPORT_CODES)
       /\ \E resp \in AirportResponses(current_code) : Step2Airport(resp)
    \/ Step2Done
    \/ \E resp \in DepartureResponses : Step3Departures(resp)
    \/ Step3Flight
    \/ Step3Done
    \/ \E registration \in aircraft_registrations :
        \E resp \in AircraftResponses(registration) :
            Step4Aircraft(registration, resp)
    \/ Step5Summary

Spec == Init /\ [][Next]_vars

-----------------------------------------------------------------------------
(* One run against the provider with long lists                            *)

InitLimits ==
    /\ tables_created = FALSE
    /\ airport = <<>>
    /\ aircraft = <<>>
    /\ flights = <<>>
    /\ uncommitted = NoneUncommitted
    /\ pc = "start"
    /\ idx = 0
    /\ jdx = 0
    /\ airports_data = {}
    /\ departures = <<>>
    /\ aircraft_registrations = {}
    /\ requested = {}
    /\ console = ""
    /\ summary = NoSummary
    /\ conn_open = FALSE
    /\ runs = MaxRuns - 1
    /\ run_base = [airport |-> 0, aircraft |-> 0, flights |-> 0]
    /\ passed = <<>>
    /\ ingested = {}
    /\ calls = <<>>
    /\ page = [view |-> "none"]

NextLimits ==
    \/ Step1CreateDatabase
    \/ /\ pc = "step2"
       /\ idx <= Len(AIRPORT_CODES)
       /\ \E resp \in BulkAirportResponses(current_code) : Step2Airport(resp)
    \/ Step2Done
    \/ \E resp \in BulkDepartureResponses : Step3Departures(resp)
    \/ Step3Flight
    \/ Step3Done
    \/ \E registration \in aircraft_registrations :
        \E resp \in BulkAircraftResponses(registration) :
            Step4Aircraft(registration, resp)
    \/ Step5Summary

SpecLimits == InitLimits /\ [][NextLimits]_vars

-----------------------------------------------------------------------------
(* The Dashboard: SQL over the store                                       *)

\* LIMIT 5 of the recent-flights query
RECENT_LIMIT == 5

\* a REAL with two decimals, in hundredths, or SQL NULL (None in pandas)
SqlReal(hundredths) == [is_null |-> FALSE, hundredths |-> hundredths]
SqlNull == [is_null |-> TRUE, hundredths |-> 0]

\* the quotient cut after two decimals instead of rounded
RoundPct_truncated(num, den) ==
    IF den = 0
    THEN [is_null |-> TRUE, hundredths |-> 0]
    ELSE [is_null |-> FALSE, hundredths |-> (num * 10000) \div den]

\* ROUND(num * 100.0 / den, 2) in hundredths: SQLite rounds half away from
\* zero, and a division by zero yields NULL
RoundPct(num, den) ==
    IF den = 0
    THEN SqlNull
    ELSE SqlReal((2 * num * 10000 + den) \div (2 * den))

\* execute_query: an exception (no such table) is shown and an empty
\* DataFrame returned
query_fails == ~tables_created

\* SELECT COUNT(*) as count FROM <table>; 0 when the DataFrame is empty
count_metric(tbl) == IF query_fails THEN 0 ELSE Len(tbl)

\* SELECT ROUND((COUNT(CASE WHEN status = 'Delayed' THEN 1 END) * 100.0) /
\*        COUNT(*), 2) FROM flights WHERE status IS NOT NULL
\* an aggregate without GROUP BY returns one row whatever the table holds
delay_pct_query ==
    LET with_status == SelectSeq(flights, LAMBDA f : f.status # NULL)
    IN  RoundPct(Len(SelectSeq(with_status, LAMBDA f : f.status = "Delayed")),
                 Len(with_status))

\* pct = result['delay_pct'].values[0] if not result.empty else 0
delay_metric == IF query_fails THEN SqlReal(0) ELSE delay_pct_query

show_home_dashboard ==
    /\ page' = [view      |-> "home",
                airports  |-> count_metric(airport),
                flights   |-> count_metric(flights),
                aircraft  |-> count_metric(aircraft),
                delay_pct |-> delay_metric]
    /\ UNCHANGED <<tables_created, store_vars, collector_vars>>

\* ORDER BY a TEXT column: NULL sorts below every string, strings of one
\* ISO-8601 format sort as their dates
Timestamps ==
    <<"2024-01-01", "2024-01-02", "2024-01-03", "2024-01-04", "2024-01-05",
      "2024-01-06", "2024-01-07", "2024-01-08">>

Collate(text) ==
    IF text = NULL
    THEN 0
    ELSE CHOOSE n \in DOMAIN Timestamps : Timestamps[n] = text

\* JOIN instead of LEFT JOIN: a flight without a match is dropped
inner_join_airport(code) ==
    {m \in DOMAIN airport : code # NULL /\ airport[m].iata_code = code}

\* rows of  airport a  with  <code> = a.iata_code  (NULL equals nothing);
\* LEFT JOIN keeps a flight without a match, with 0 for the missing row
left_join_airport(code) ==
    LET on == {m \in DOMAIN airport :
                  code # NULL /\ airport[m].iata_code = code}
    IN  IF on = {} THEN {0} ELSE on

joined_name(m) == IF m = 0 THEN NULL ELSE airport[m].name

\* FROM flights f LEFT JOIN airport a1 ... LEFT JOIN airport a2 ...
\* WHERE f.destination_iata = sel OR f.origin_iata = sel
recent_flights_rows(selected_airport) ==
    {<<n, m1, m2>> \in
        (DOMAIN flights) \X (DOMAIN airport \cup {0}) \X (DOMAIN airport \cup {0}) :
        /\ m1 \in left_join_airport(flights[n].origin_iata)
        /\ m2 \in left_join_airport(flights[n].destination_iata)
        /\ \/ flights[n].destination_iata = selected_airport
           \/ flights[n].origin_iata = selected_airport}

\* ORDER BY f.scheduled_departure DESC LIMIT n: every order SQL allows
\* (rows with equal keys come in any order)
RECURSIVE order_by_departure_desc(_, _)
order_by_departure_desc(rows, limit) ==
    IF rows = {} \/ limit = 0
    THEN {<<>>}
    ELSE LET key(r) == Collate(flights[r[1]].scheduled_departure)
             first == {r \in rows : \A q \in rows : key(q) <= key(r)}
         IN  UNION {{<<r>> \o rest :
                        rest \in order_by_departure_desc(rows \ {r}, limit - 1)} :
                    r \in first}

\* the selected columns of a joined row
recent_flight_columns(r) ==
    [flight_number       |-> flights[r[1]].flight_number,
     origin              |-> joined_name(r[2]),
     destination         |-> joined_name(r[3]),
     status              |-> flights[r[1]].status,
     scheduled_departure |-> flights[r[1]].scheduled_departure]

\* the options of the selectbox: the iata codes of the airport table
airport_options ==
    IF query_fails THEN {} ELSE {airport[m].iata_code : m \in DOMAIN airport}

\* SELECT * FROM airport WHERE iata_code = '<selected>': df_airport.iloc[0]
selected_row(selected_airport) ==
    airport[CHOOSE m \in DOMAIN airport :
                airport[m].iata_code = selected_airport]

\* f"{airport['latitude']:.4f}" and f"{airport['longitude']:.4f}" raise a
\* TypeError on None, the value pandas gives for a NULL
format_raises(row) == row.latitude = NULL \/ row.longitude = NULL

\* show_airport_explorer with selected_airport chosen in the selectbox;
\* ordered is the order in which SQLite returned the recent flights.  An
\* exception ends the script run: what follows it is not rendered.
show_airport_explorer(selected_airport, ordered) ==
    /\ selected_airport \in airport_options
    /\ selected_airport # NULL
    /\ ordered \in order_by_departure_desc(
                       recent_flights_rows(selected_airport), RECENT_LIMIT)
    /\ page' = IF format_raises(selected_row(selected_airport))
               THEN [view       |-> "airport_explorer",
                     selected   |-> selected_airport,
                     error      |-> "TypeError",
                     departures |-> 0,
                     arrivals   |-> 0,
                     recent     |-> <<>>]
               ELSE [view       |-> "airport_explorer",
                     selected   |-> selected_airport,
                     error      |-> "",
                     departures |-> Len(SelectSeq(flights,
                                       LAMBDA f : f.origin_iata = selected_airport)),
                     arrivals   |-> Len(SelectSeq(flights,
                                       LAMBDA f : f.destination_iata = selected_airport)),
                     recent     |-> [n \in DOMAIN ordered |->
                                       recent_flight_columns(ordered[n])]]
    /\ UNCHANGED <<tables_created, store_vars, collector_vars>>

\* FROM airport a LEFT JOIN flights f ON a.iata_code = f.destination_iata:
\* the flights joined to airport row m (NULL equals nothing)
delay_joined(m) ==
    {n \in DOMAIN flights :
        /\ airport[m].iata_code # NULL
        /\ flights[n].destination_iata = airport[m].iata_code}

\* COUNT(f.flight_id): the joined rows whose flight_id is not NULL
total_arrivals(m) ==
    Cardinality({n \in delay_joined(m) : flights[n].flight_id # NULL})

\* SUM(CASE WHEN f.status = 'Delayed' THEN 1 ELSE 0 END): over every joined
\* row
delayed_count(m) ==
    Cardinality({n \in delay_joined(m) : flights[n].status = "Delayed"})

\* ROUND((SUM(...) * 100.0) / COUNT(f.flight_id), 2)
delayed_percentage(m) == RoundPct(delayed_count(m), total_arrivals(m))

\* GROUP BY a.iata_code, a.name HAVING COUNT(f.flight_id) > 0: iata_code is
\* UNIQUE, so a group is one airport row
delay_groups == {m \in DOMAIN airport : total_arrivals(m) > 0}

\* ORDER BY delayed_percentage DESC: every order SQL allows
RECURSIVE order_by_percentage_desc(_)
order_by_percentage_desc(groups) ==
    IF groups = {}
    THEN {<<>>}
    ELSE LET key(m) == delayed_percentage(m).hundredths
             first == {m \in groups : \A q \in groups : key(q) <= key(m)}
         IN  UNION {{<<m>> \o rest :
                        rest \in order_by_percentage_desc(groups \ {m})} :
                    m \in first}

\* the selected columns of a group
delay_columns(m) ==
    [iata_code          |-> airport[m].iata_code,
     name               |-> airport[m].name,
     total_arrivals     |-> total_arrivals(m),
     delayed_count      |-> delayed_count(m),
     delayed_percentage |-> delayed_percentage(m)]

\* show_delay_analysis; ordered is the order in which SQLite returned the
\* groups.  Nothing is displayed when the DataFrame is empty.
show_delay_analysis(ordered) ==
    /\ ordered \in order_by_percentage_desc(delay_groups)
    /\ page' = [view |-> "delay_analysis",
                rows |-> IF query_fails
                         THEN <<>>
                         ELSE [n \in DOMAIN ordered |->
                                  delay_columns(ordered[n])]]
    /\ UNCHANGED <<tables_created, store_vars, collector_vars>>


-----------------------------------------------------------------------------
(* The Dashboard over a store the Collector left.  Every store below is    *)
(* built with the insert functions from rows a provider may return.        *)

AI505 == FlightJson("AI505", "VT-B", "LHR", "DEL", "2024-01-05", "On Time")
AI606 == FlightJson("AI606", "VT-A", "JFK", "DEL", "2024-01-06", "Delayed")
AI707 == FlightJson("AI707", NULL, "DEL", "BOM", "2024-01-07", "Cancelled")
\* departs at the same time as AI707
AI808 == FlightJson("AI808", "VT-A", "DEL", "LHR", "2024-01-07", "On Time")
AI909 == FlightJson("AI909", "VT-B", "BOM", "LHR", "2024-01-08", "Delayed")
\* a flight the provider gave no 'number' for
UnnumberedDelayed ==
    FlightJson(NULL, "VT-B", "BOM", "LHR", "2024-01-04", "Delayed")

StoredFlights ==
    <<AI101, AI202, AI202_next_day, Unnumbered, AI505, AI606, AI707, AI808,
      AI909, UnnumberedDelayed>>

StoredAirports ==
    <<AirportJson("VIDP", "DEL", "Airport One"),
      AirportJson("EGLL", "LHR", "Airport One"),
      AirportJsonNoLocation(NULL, "BOM", "Airport Two")>>

StoredAircraft == <<AircraftJson("VT-A", "A320")>>

\* the table after the stored rows chosen by keep are inserted in order
RECURSIVE insert_all_airports(_, _)
insert_all_airports(keep, n) ==
    IF n = 0
    THEN <<>>
    ELSE LET before == insert_all_airports(keep, n - 1)
         IN  IF n \in keep THEN insert_airport(before, StoredAirports[n])
                           ELSE before

RECURSIVE insert_all_aircraft(_, _)
insert_all_aircraft(keep, n) ==
    IF n = 0
    THEN <<>>
    ELSE LET before == insert_all_aircraft(keep, n - 1)
         IN  IF n \in keep THEN insert_aircraft(before, StoredAircraft[n])
                           ELSE before

RECURSIVE insert_all_flights(_, _)
insert_all_flights(keep, n) ==
    IF n = 0
    THEN <<>>
    ELSE LET before == insert_all_flights(keep, n - 1)
         IN  IF n \in keep THEN insert_flight(before, StoredFlights[n])
                           ELSE before

InitDash ==
    /\ \E keep \in SUBSET DOMAIN StoredAirports :
           airport = insert_all_airports(keep, Len(StoredAirports))
    /\ \E keep \in SUBSET DOMAIN StoredAircraft :
           aircraft = insert_all_aircraft(keep, Len(StoredAircraft))
    /\ \E keep \in SUBSET DOMAIN StoredFlights :
           flights = insert_all_flights(keep, Len(StoredFlights))
    /\ tables_created \in BOOLEAN
    /\ ~tables_created => airport = <<>> /\ aircraft = <<>> /\ flights = <<>>
    /\ uncommitted = NoneUncommitted
    /\ pc = IF tables_created THEN "done" ELSE "start"
    /\ idx = 0
    /\ jdx = 0
    /\ airports_data = {}
    /\ departures = <<>>
    /\ aircraft_registrations = {}
    /\ requested = {}
    /\ console = ""
    /\ summary = NoSummary
    /\ conn_open = FALSE
    /\ runs = 0
    /\ run_base = [airport |-> 0, aircraft |-> 0, flights |-> 0]
    /\ passed = <<>>
    /\ ingested = {}
    /\ calls = <<>>
    /\ page = [view |-> "none"]

NextDash ==
    \/ show_home_dashboard
    \/ \E selected_airport \in airport_options :
        \E ordered \in order_by_departure_desc(
                           recent_flights_rows(selected_airport), RECENT_LIMIT) :
            show_airport_explorer(selected_airport, ordered)
    \/ \E ordered \in order_by_percentage_desc(delay_groups) :
            show_delay_analysis(ordered)

SpecDash == InitDash /\ [][NextDash]_vars

-----------------------------------------------------------------------------
(* One run that may be killed, with the Dashboard reading the store while  *)
(* it runs.  A step of the Collector is one call and the insert that       *)
(* follows it; a kill or a read inside an insert, before its commit, finds *)
(* the file as it was before the step, and after the commit as it is after *)
(* the step, so kills and reads between steps give every outcome.          *)

\* the process of the Collector is killed: SQLite rolls back what its
\* connection had not committed
Kill ==
    /\ pc \in {"step2", "step3", "step3_flights", "step4"}
    /\ pc' = "killed"
    /\ airport' = persisted(airport, uncommitted.airport)
    /\ aircraft' = persisted(aircraft, uncommitted.aircraft)
    /\ flights' = persisted(flights, uncommitted.flights)
    /\ uncommitted' = NoneUncommitted
    /\ conn_open' = FALSE
    /\ UNCHANGED <<tables_created, idx, jdx, airports_data, departures,
                   aircraft_registrations, requested, console, summary, runs,
                   run_base, passed, ingested, calls, page>>

NextReader ==
    \/ Next
    \/ Kill
    \/ show_home_dashboard

SpecReader == InitLimits /\ [][NextReader]_vars

-----------------------------------------------------------------------------
(* Properties                                                              *)

\* keys are unique where they are not NULL (what the constraints of
\* create_database give)
UniqueNonNullKeys ==
    /\ \A m, n \in DOMAIN airport :
        m # n => /\ airport[m].iata_code = NULL
                    \/ airport[m].iata_code # airport[n].iata_code
                 /\ airport[m].icao_code = NULL
                    \/ airport[m].icao_code # airport[n].icao_code
    /\ \A m, n \in DOMAIN aircraft :
        m # n => \/ aircraft[m].registration = NULL
                 \/ aircraft[m].registration # aircraft[n].registration
    /\ \A m, n \in DOMAIN flights :
        m # n => \/ flights[m].flight_number = NULL
                 \/ flights[m].flight_number # flights[n].flight_number

\* C1: after any number of runs the store never holds two airport rows with
\* the same non-null IATA code or the same non-null ICAO code, two aircraft
\* rows with the same registration, or two flight rows with the same flight
\* number.
C1_NoDuplicateRows ==
    /\ \A m, n \in DOMAIN airport :
        m # n => /\ airport[m].iata_code = NULL
                    \/ airport[m].iata_code # airport[n].iata_code
                 /\ airport[m].icao_code = NULL
                    \/ airport[m].icao_code # airport[n].icao_code
    /\ \A m, n \in DOMAIN aircraft :
        m # n => aircraft[m].registration # aircraft[n].registration
    /\ \A m, n \in DOMAIN flights :
        m # n => flights[m].flight_number # flights[n].flight_number

\* the flight main passes to insert_flight next
next_flight == departures_slice[jdx]

\* C2: keep-first on key collision.  When insert_flight gets a flight whose
\* number is stored already, when insert_airport gets an airport whose IATA
\* code is stored already, and when insert_aircraft gets an aircraft whose
\* registration is stored already, the table is left as it was, exactly one
\* row has that key, no error is printed and the run goes on.
C2_KeepFirst ==
    [][/\ (/\ pc = "step3_flights"
           /\ ~insert_flight_raises(next_flight)
           /\ next_flight.number # NULL
           /\ \E n \in DOMAIN flights : flights[n].flight_id = next_flight.number)
          => /\ flights' = flights
             /\ Cardinality({n \in DOMAIN flights' :
                    flights'[n].flight_id = next_flight.number}) = 1
             /\ console' = ""
             /\ pc' \in {"step3", "step3_flights"}
       /\ (pc = "step2" /\ idx <= Len(AIRPORT_CODES))
          => \A resp \in AirportResponses(current_code) :
                (/\ Truthy(get_airport_info(resp))
                 /\ resp.iata # NULL
                 /\ \E n \in DOMAIN airport : airport[n].iata_code = resp.iata
                 /\ Step2Airport(resp))
                => /\ airport' = airport
                   /\ Cardinality({n \in DOMAIN airport' :
                          airport'[n].iata_code = resp.iata}) = 1
                   /\ console' = ""
                   /\ pc' = "step2"
       /\ pc = "step4"
          => \A registration \in aircraft_registrations \ requested :
               \A resp \in AircraftResponses(registration) :
                (/\ Truthy(get_aircraft_info(resp))
                 /\ resp.registration # NULL
                 /\ \E n \in DOMAIN aircraft :
                        aircraft[n].registration = resp.registration
                 /\ Step4Aircraft(registration, resp))
                => /\ aircraft' = aircraft
                   /\ Cardinality({n \in DOMAIN aircraft' :
                          aircraft'[n].registration = resp.registration}) = 1
                   /\ console' = ""
                   /\ pc' = "step4"
      ]_vars

\* C2 witness: both flights AI202 were passed to insert_flight, the row
\* stored is the first one, and the run went on to its end
C2_Witness ==
    /\ pc = "done"
    /\ {AI202, AI202_next_day} \subseteq ingested
    /\ \E n \in DOMAIN flights :
        /\ flights[n].flight_id = "AI202"
        /\ flights[n].status = "On Time"
        /\ flights[n].origin_iata = "DEL"

\* C3: when the airport fetch of step 2 fails with an HTTP or a transport
\* error, the error is printed, no airport row is inserted, the code is not
\* recorded as fetched, and the loop goes on to the next code.
C3_AirportFetchFailure ==
    [][(pc = "step2" /\ idx <= Len(AIRPORT_CODES))
       => \A resp \in AirportResponses(current_code) :
            (Failed(resp) /\ Step2Airport(resp))
            => /\ airport' = airport
               /\ current_code \notin airports_data'
               /\ console' = "Error fetching airport"
               /\ pc' = "step2"
               /\ idx' = idx + 1
      ]_vars

\* C3 witness: the fetch of the first code failed and the second code was
\* fetched and inserted after it
C3_Witness ==
    /\ pc = "step2"
    /\ idx = 3
    /\ AIRPORT_CODES[1] \notin airports_data
    /\ AIRPORT_CODES[2] \in airports_data
    /\ \A n \in DOMAIN airport : airport[n].iata_code # AIRPORT_CODES[1]
    /\ \E n \in DOMAIN airport : airport[n].iata_code = AIRPORT_CODES[2]
    /\ runs = 1

\* number of flights with a non-null status, and of those 'Delayed'
FlightsWithStatus ==
    Cardinality({n \in DOMAIN flights : flights[n].status # NULL})
FlightsDelayed ==
    Cardinality({n \in DOMAIN flights : flights[n].status = "Delayed"})

\* C4: with no flight of non-null status the delay rate of the Home view is
\* a defined default value, not null.
C4_DelayRateDefined ==
    (page.view = "home" /\ FlightsWithStatus = 0) => ~page.delay_pct.is_null

\* C5: with N >= 1 flights of non-null status, D of them 'Delayed', the Home
\* view reports D*100/N rounded to two decimals and the row counts of the
\* three tables; the store of airports DEL and LHR and the single 'Delayed'
\* flight AI101 gives 2 airports, 1 flight and 100.0.
C5_HomeMetrics ==
    page.view = "home"
    => /\ page.airports = Len(airport)
       /\ page.flights = Len(flights)
       /\ page.aircraft = Len(aircraft)
       /\ FlightsWithStatus >= 1
          => /\ ~page.delay_pct.is_null
             /\ LET diff == page.delay_pct.hundredths * FlightsWithStatus
                              - FlightsDelayed * 10000
                IN  2 * diff <= FlightsWithStatus /\ -2 * diff <= FlightsWithStatus
       /\ (/\ {r.iata_code : r \in Range(airport)} = {"DEL", "LHR"}
           /\ Len(airport) = 2
           /\ Len(flights) = 1
           /\ flights[1].flight_number = "AI101"
           /\ flights[1].status = "Delayed")
          => /\ page.airports = 2
             /\ page.flights = 1
             /\ page.delay_pct = SqlReal(10000)

\* C5 witness: the Home view of a store where the rate is not a whole number
\* of hundredths
C5_Witness ==
    /\ page.view = "home"
    /\ FlightsWithStatus >= 3
    /\ ~page.delay_pct.is_null
    /\ page.delay_pct.hundredths * FlightsWithStatus # FlightsDelayed * 10000
    /\ Len(airport) = 2

\* C6: no failure is fatal to a run: whatever the provider answers, the run
\* goes through its steps, prints the summary and closes its connection.
C6_NeverFatal == pc # "crashed"

\* C7: in one run at most the first 5 flights returned for an airport are
\* passed to insert_flight, so the run adds at most 5 flight rows per fetched
\* airport, and get_aircraft_info is called for at most 10 registrations.
C7_PerRunLimits ==
    /\ Len(passed) <= 5
    /\ Len(passed) <= Len(departures)
    /\ passed = SubSeq(departures, 1, Len(passed))
    /\ Len(flights) - run_base.flights <= 5 * Cardinality(airports_data)
    /\ Cardinality(requested) <= 10
    /\ requested \subseteq aircraft_registrations

\* C7 witness: a finished run whose last airport returned more than 5
\* flights and which collected more than 10 registrations
C7_Witness ==
    /\ pc = "done"
    /\ Len(departures) > 5
    /\ Len(passed) = 5
    /\ Cardinality(aircraft_registrations) > 10
    /\ Cardinality(requested) = 10

\* C8: every aircraft row a run adds has a registration that one of the
\* flights ingested in step 3 of that run carries.
C8_AircraftOnlyForIngested ==
    \A n \in DOMAIN aircraft :
        n > run_base.aircraft
        => /\ aircraft[n].registration # NULL
           /\ \E f \in ingested : f.aircraft = aircraft[n].registration

\* C9: insert_flight does not check references: a flight it is given is
\* stored whenever the call does not raise and the flight number is not
\* stored yet, whether or not its origin, destination and aircraft have a
\* row.
C9_ReferencesNotEnforced ==
    [][(/\ pc = "step3_flights"
        /\ ~insert_flight_raises(next_flight)
        /\ ~(/\ next_flight.number # NULL
             /\ \E n \in DOMAIN flights : flights[n].flight_id = next_flight.number))
       => /\ Len(flights') = Len(flights) + 1
          /\ SubSeq(flights', 1, Len(flights)) = flights
          /\ flights'[Len(flights')].flight_id = next_flight.number
          /\ flights'[Len(flights')].origin_iata = next_flight.origin
          /\ flights'[Len(flights')].destination_iata = next_flight.destination
          /\ flights'[Len(flights')].aircraft_registration = next_flight.aircraft
      ]_vars

HasAirport(code) == \E m \in DOMAIN airport : airport[m].iata_code = code

\* C9 witness: a stored flight whose origin, destination and aircraft have
\* no row at the end of a run
C9_Witness ==
    /\ pc = "done"
    /\ \E n \in DOMAIN flights :
        /\ flights[n].origin_iata # NULL
        /\ ~HasAirport(flights[n].origin_iata)
        /\ flights[n].destination_iata # NULL
        /\ ~HasAirport(flights[n].destination_iata)
        /\ flights[n].aircraft_registration # NULL
        /\ \A m \in DOMAIN aircraft :
              aircraft[m].registration # flights[n].aircraft_registration

\* the flights that touch an airport, and whether all flights of the store
\* have pairwise distinct scheduled departures
Touching(code) ==
    {n \in DOMAIN flights :
        flights[n].origin_iata = code \/ flights[n].destination_iata = code}

DistinctDepartures ==
    \A m, n \in DOMAIN flights :
        m # n => flights[m].scheduled_departure # flights[n].scheduled_departure

\* C10: when the flights have pairwise distinct scheduled departures, the
\* recent flights of Airport Explorer are exactly the min(5, k) latest of the
\* k flights whose origin or destination is the selected code, latest first,
\* flights whose other endpoint has no airport row included.
C10_RecentFlights ==
    (page.view = "airport_explorer" /\ DistinctDepartures)
    => LET touching == Touching(page.selected)
           k == Cardinality(touching)
           shown == {n \in touching :
                       \E i \in DOMAIN page.recent :
                          /\ page.recent[i].scheduled_departure
                               = flights[n].scheduled_departure
                          /\ page.recent[i].flight_number = flights[n].flight_number
                          /\ page.recent[i].status = flights[n].status}
       IN  /\ Len(page.recent) = Min(5, k)
           /\ Cardinality(shown) = Len(page.recent)
           /\ \A n \in shown : \A m \in touching \ shown :
                 Collate(flights[m].scheduled_departure)
                   < Collate(flights[n].scheduled_departure)
           /\ \A i, j \in DOMAIN page.recent :
                 i < j => Collate(page.recent[i].scheduled_departure)
                            > Collate(page.recent[j].scheduled_departure)

\* the recent flights are as C10 says whenever the view gets to render them
RecentFlightsWhenRendered == page.view = "airport_explorer" /\ page.error = "" => C10_RecentFlights

\* C10 witness: more than five flights touch the selected airport, and a
\* flight shown has an endpoint without an airport row
C10_Witness ==
    /\ page.view = "airport_explorer"
    /\ DistinctDepartures
    /\ Cardinality(Touching(page.selected)) > 5
    /\ \E i \in DOMAIN page.recent : page.recent[i].origin = NULL

\* the flights destined to code, and of those the 'Delayed'
ArrivalsAt(code) ==
    {n \in DOMAIN flights : flights[n].destination_iata = code}

DelayedAt(code) ==
    {n \in ArrivalsAt(code) : flights[n].status = "Delayed"}

\* C11: Delay Analysis lists exactly the airports that have a row in the
\* airport table and at least one flight destined there, once each, with
\* the number of flights destined there, the number of those 'Delayed' and
\* delayed*100/total rounded to two decimals, by percentage descending; the
\* store of airports DEL and LHR and the single 'Delayed' flight AI101
\* DEL->LHR lists LHR with 1, 1, 100.0 and not DEL.
C11_DelayAnalysis ==
    (page.view = "delay_analysis" /\ tables_created)
    => /\ {page.rows[i].iata_code : i \in DOMAIN page.rows}
            = {c \in {airport[m].iata_code : m \in DOMAIN airport} :
                  c # NULL /\ ArrivalsAt(c) # {}}
       /\ \A i, j \in DOMAIN page.rows :
              page.rows[i].iata_code = page.rows[j].iata_code => i = j
       /\ \A i \in DOMAIN page.rows :
              LET r == page.rows[i]
                  total == Cardinality(ArrivalsAt(r.iata_code))
                  delayed == Cardinality(DelayedAt(r.iata_code))
                  diff == r.delayed_percentage.hundredths * total
                            - delayed * 10000
              IN  /\ r.total_arrivals = total
                  /\ r.delayed_count = delayed
                  /\ ~r.delayed_percentage.is_null
                  /\ 2 * diff <= total /\ -2 * diff <= total
       /\ \A i, j \in DOMAIN page.rows :
              i < j => page.rows[i].delayed_percentage.hundredths
                         >= page.rows[j].delayed_percentage.hundredths
       /\ (/\ {r.iata_code : r \in Range(airport)} = {"DEL", "LHR"}
           /\ Len(airport) = 2
           /\ Len(flights) = 1
           /\ flights[1].flight_number = "AI101"
           /\ flights[1].destination_iata = "LHR"
           /\ flights[1].status = "Delayed")
          => /\ Len(page.rows) = 1
             /\ page.rows[1].iata_code = "LHR"
             /\ page.rows[1].total_arrivals = 1
             /\ page.rows[1].delayed_count = 1
             /\ page.rows[1].delayed_percentage = SqlReal(10000)

\* over a store in which every flight has a number, Delay Analysis is as C11
\* says
DelayAnalysisWhenNumbered ==
    (\A n \in DOMAIN flights : flights[n].flight_id # NULL)
    => C11_DelayAnalysis

\* Delay Analysis of a store with two listed airports of different rates,
\* every flight numbered
DelayAnalysisListsTwo ==
    /\ page.view = "delay_analysis"
    /\ \A n \in DOMAIN flights : flights[n].flight_id # NULL
    /\ Len(page.rows) >= 2
    /\ page.rows[1].delayed_percentage # page.rows[2].delayed_percentage
    /\ \E n \in DOMAIN flights : ~HasAirport(flights[n].destination_iata)

\* position of a kind of call in the order of the phases
Phase(kind) ==
    CASE kind = "airport" -> 2
      [] kind = "departures" -> 3
      [] kind = "aircraft" -> 4

CallsOf(kind) == {i \in DOMAIN calls : calls[i].kind = kind}

\* C12: the external calls of a run are made one at a time and in phase
\* order: the airport fetches of all codes, in the order of AIRPORT_CODES
\* and once each, precede the first departures request; every departures
\* request precedes the first aircraft request; a departures request is made
\* only for a code whose airport fetch of the same run did not fail, and at
\* most once per code.
C12_PhaseOrder ==
    /\ [](/\ \A i, j \in DOMAIN calls :
                i < j => Phase(calls[i].kind) <= Phase(calls[j].kind)
          /\ (CallsOf("departures") \cup CallsOf("aircraft") # {})
             => SelectSeq(calls, LAMBDA c : c.kind = "airport")
                  = [n \in DOMAIN AIRPORT_CODES |->
                        [kind |-> "airport", code |-> AIRPORT_CODES[n],
                         failed |-> calls[n].failed]]
          /\ \A i, j \in CallsOf("airport") :
                calls[i].code = calls[j].code => i = j
          /\ \A j \in CallsOf("departures") :
                /\ \E i \in CallsOf("airport") :
                      /\ i < j
                      /\ calls[i].code = calls[j].code
                      /\ ~calls[i].failed
                /\ \A k \in CallsOf("departures") :
                      calls[k].code = calls[j].code => k = j)
    /\ [][calls' = <<>> \/ calls' = calls
            \/ (Len(calls') = Len(calls) + 1
                /\ SubSeq(calls', 1, Len(calls)) = calls)]_vars

\* C12 witness: a finished run in which an airport fetch failed, two
\* departures requests and an aircraft request were made
C12_Witness ==
    /\ pc = "done"
    /\ \E i \in CallsOf("airport") : calls[i].failed
    /\ Cardinality(CallsOf("departures")) >= 2
    /\ CallsOf("aircraft") # {}

\* C13: once step 2 of a run is over, every code whose airport fetch
\* succeeded, and whose departures are therefore requested, has a row in the
\* airport table with that IATA code.
C13_AirportPersisted ==
    pc \in {"step3", "step3_flights", "step4", "done", "crashed"}
    => \A code \in airports_data : HasAirport(code)

\* tbl2 is tbl1, or tbl1 with one row appended
SameOrOneMore(tbl1, tbl2) ==
    \/ tbl2 = tbl1
    \/ /\ Len(tbl2) = Len(tbl1) + 1
       /\ SubSeq(tbl2, 1, Len(tbl1)) = tbl1

\* C14: every insert is committed on its own: between two steps of the
\* Collector nothing is uncommitted, so the file holds exactly the rows of
\* the inserts completed so far; a step adds at most the one row of its
\* insert (an airport row in step 2, the flight passed to insert_flight in
\* step 3, an aircraft row in step 4) and changes no stored row; a kill
\* leaves the store as it is; the Dashboard reading during the run gets the
\* counts of the rows stored so far.
C14_CommitPerInsert ==
    /\ [](uncommitted = NoneUncommitted)
    /\ [][/\ SameOrOneMore(airport, airport')
          /\ SameOrOneMore(aircraft, aircraft')
          /\ SameOrOneMore(flights, flights')
          /\ Len(airport') + Len(aircraft') + Len(flights')
               <= Len(airport) + Len(aircraft) + Len(flights) + 1
          /\ airport' # airport => pc = "step2"
          /\ aircraft' # aircraft => pc = "step4"
          /\ flights' # flights
             => /\ pc = "step3_flights"
                /\ flights'[Len(flights')].flight_id = next_flight.number
          /\ pc' = "killed"
             => /\ airport' = airport
                /\ aircraft' = aircraft
                /\ flights' = flights
          /\ (page' # page /\ page'.view = "home")
             => /\ page'.airports = Len(persisted(airport, uncommitted.airport))
                /\ page'.flights = Len(persisted(flights, uncommitted.flights))
                /\ page'.aircraft
                     = Len(persisted(aircraft, uncommitted.aircraft))]_vars

\* C14 witness: the Dashboard read the store during step 3 and found a
\* flight whose aircraft has no row yet; then the Collector was killed and
\* the flight is still stored
C14_Witness ==
    /\ pc = "killed"
    /\ page.view = "home"
    /\ page.flights >= 1
    /\ page.flights < Len(flights)
    /\ page.aircraft = 0
    /\ aircraft = <<>>
    /\ \E n \in DOMAIN flights : flights[n].aircraft_registration # NULL

====
